---- MODULE Spec2Model ----
(***************************************************************************)
(* Model of the Aronia Pure backend (src/main.py, src/schemas.py): the     *)
(* catalog reader list_products and the order intake create_order, over a  *)
(* document store with the two collections "aroniaproduct" and "order".    *)
(*                                                                         *)
(* Money is counted in whole cents (12.90 is 1290), so unit_price *        *)
(* quantity and its sum are exact integers here; the rounding of Python    *)
(* floats is outside this model.  A document field read with dict.get is   *)
(* a tagged value: absent ("missing"), present and None ("null"), or       *)
(* present with a value ("val").                                           *)
(***************************************************************************)
EXTENDS Integers, Sequences, FiniteSets, TLC

\* ---------------------------------------------------------------- bounds
MaxExt      == 1   \* documents put in the product collection out-of-band
MaxItems    == 2   \* items in one checkout body
MaxRequests == 2   \* requests served in one behaviour
NumList     == 2   \* list_products requests that may be in flight together

\* ------------------------------------------------------- tagged values
MissingS == [k |-> "missing", v |-> ""]
NullS    == [k |-> "null", v |-> ""]
Str(s)   == [k |-> "val", v |-> s]
MissingN == [k |-> "missing", v |-> 0]
NullN    == [k |-> "null", v |-> 0]
Num(n)   == [k |-> "val", v |-> n]
MissingB == [k |-> "missing", v |-> FALSE]
NullB    == [k |-> "null", v |-> FALSE]
Bool(b)  == [k |-> "val", v |-> b]

\* ---------------------------------------------------- schemas.py models
\* AroniaProduct(): the field defaults, as model_dump() returns them.
DefaultTitle == "Aronia Pure - 100% Chokeberry Juice"
DefaultSku   == "ARONIA-750ML"
DefaultPrice == 1290
DefaultVolume == 750
MinVolume == 50
MinQuantity == 1
MaxQuantity == 24

AroniaProduct ==
    [title |-> Str(DefaultTitle), price |-> DefaultPrice, in_stock |-> TRUE,
     sku |-> Str(DefaultSku), volume_ml |-> DefaultVolume]

\* The document create_document stores for the default product.
AroniaProductDoc ==
    [title |-> Str(DefaultTitle), price |-> Num(DefaultPrice),
     in_stock |-> Bool(TRUE), sku |-> Str(DefaultSku),
     volume_ml |-> Num(DefaultVolume)]

\* Validation of one returned dict against the response model AroniaProduct:
\* title and sku are str (None is refused), price >= 0, volume_ml >= 50.
ValidAroniaProduct(p) ==
    /\ p.title.k = "val"
    /\ p.sku.k = "val"
    /\ p.price >= 0
    /\ p.volume_ml >= MinVolume

\* OrderItem: quantity has Field(ge=1, le=24); unit_price is a bare float.
ValidOrderItem(it) ==
    /\ it.quantity >= MinQuantity
    /\ it.quantity <= MaxQuantity

\* EmailStr, on the two addresses the bodies carry.
GoodEmail == "a@b.co"
BadEmail  == "not-an-email"
ValidEmail(e) == e = GoodEmail

\* Order: every item validates and customer_email is an address.  A field
\* the model does not declare (a client total) is ignored.
ValidOrder(body) ==
    /\ ValidEmail(body.customer_email)
    /\ \A i \in 1..Len(body.items) : ValidOrderItem(body.items[i])

\* ------------------------------------------------------------ the inputs
\* Documents someone put in the product collection by hand (none has the
\* default sku): complete, with the defaultable fields absent, and with
\* fields absent, None or out of the response model's ranges.
DocFull      == [title |-> Str("Juice 330"), price |-> Num(450),
                 in_stock |-> Bool(FALSE), sku |-> Str("AR-330"),
                 volume_ml |-> Num(330)]
DocSparse    == [title |-> Str("Syrup"), price |-> MissingN,
                 in_stock |-> MissingB, sku |-> Str("AR-SYR"),
                 volume_ml |-> MissingN]
DocNullPrice == [title |-> Str("Jam"), price |-> NullN,
                 in_stock |-> Bool(TRUE), sku |-> Str("AR-JAM"),
                 volume_ml |-> Num(250)]
DocNoTitle   == [title |-> MissingS, price |-> Num(300),
                 in_stock |-> NullB, sku |-> Str("AR-TEA"),
                 volume_ml |-> Num(100)]
DocShot      == [title |-> Str("Shot"), price |-> Num(199),
                 in_stock |-> Bool(TRUE), sku |-> Str("AR-SHOT"),
                 volume_ml |-> Num(30)]
ExternalDocs == {DocFull, DocSparse, DocNullPrice, DocNoTitle, DocShot}

RECURSIVE SeqsUpTo(_, _)
SeqsUpTo(S, n) ==
    IF n = 0 THEN {<<>>}
    ELSE LET shorter == SeqsUpTo(S, n - 1)
         IN  shorter \cup {Append(q, x) : q \in {r \in shorter : Len(r) = n - 1}, x \in S}

\* Checkout bodies: sequences of items (one with a negative price, one with
\* a quantity above the range), with and without a total supplied by the
\* client; and two more ill-formed bodies, one with a quantity below the
\* range and one whose customer_email is no address.
Item(p, q) == [unit_price |-> p, quantity |-> q]
Items ==
    {Item(500, 2), Item(-100, MinQuantity), Item(DefaultPrice, MaxQuantity + 1)}
ClientTotals == {MissingN, Num(999)}
Bodies ==
    [customer_email : {GoodEmail},
     items : SeqsUpTo(Items, MaxItems),
     total_amount : ClientTotals]
    \cup {[customer_email |-> GoodEmail,
           items |-> <<Item(500, MinQuantity - 1)>>, total_amount |-> MissingN],
          [customer_email |-> BadEmail,
           items |-> <<Item(500, 2)>>, total_amount |-> MissingN]}

\* -------------------------------------------------------------- the state
VARIABLES
    products,   \* the store's "aroniaproduct" collection, in query order
    orders,     \* the store's "order" collection
    lp,         \* the list_products requests: position, locals, response;
                \* insert is "none", "ok" or "failed": the create_document call
    resp,       \* the last create_order request, its response, its insert
    served      \* requests started so far

vars == <<products, orders, lp, resp, served>>

ListReqs == 1..NumList

IdleReq == [pc |-> "idle", items |-> <<>>, insert |-> "none",
            status |-> 0, result |-> <<>>]
NoResp  == [op |-> "none", order |-> [customer_email |-> GoodEmail,
                                      items |-> <<>>,
                                      total_amount |-> MissingN],
            status |-> 0, order_id |-> NullN, total_amount |-> 0,
            insert |-> "none"]

Init ==
    /\ products \in SeqsUpTo(ExternalDocs, MaxExt)
    /\ orders = <<>>
    /\ lp = [r \in ListReqs |-> IdleReq]
    /\ resp = NoResp
    /\ served = 0

\* ---------------------------------------------------------- list_products
\* i.get(name) for a str field: None when the key is absent or None.
GetStr(x) == IF x.k = "val" THEN x ELSE NullS

\* float(i.get("price", 0)) and int(i.get("volume_ml", 750)) raise TypeError
\* on None.
Raises(i) == i.price.k = "null" \/ i.volume_ml.k = "null"

\* The dict the list comprehension builds for one document.
NormalizeMut(i) ==
    [title     |-> GetStr(i.title),
     price     |-> IF i.price.k = "missing" THEN DefaultPrice ELSE i.price.v,
     in_stock  |-> IF i.in_stock.k = "missing" THEN TRUE
                   ELSE IF i.in_stock.k = "null" THEN FALSE ELSE i.in_stock.v,
     sku       |-> GetStr(i.sku),
     volume_ml |-> IF i.volume_ml.k = "missing" THEN DefaultVolume
                   ELSE i.volume_ml.v]

Normalize(i) ==
    [title     |-> GetStr(i.title),
     price     |-> IF i.price.k = "missing" THEN 0 ELSE i.price.v,
     in_stock  |-> IF i.in_stock.k = "missing" THEN TRUE
                   ELSE IF i.in_stock.k = "null" THEN FALSE ELSE i.in_stock.v,
     sku       |-> GetStr(i.sku),
     volume_ml |-> IF i.volume_ml.k = "missing" THEN DefaultVolume
                   ELSE i.volume_ml.v]

\* What the seeding branch leaves in items, after a create_document that
\* returned (ok) or raised.
SeedItemsMut(ok) == IF ok THEN <<AroniaProduct>> ELSE <<>>

SeedItems(ok) == <<AroniaProduct>>

\* response_model=List[AroniaProduct]: the returned list is serialised when
\* every element validates, and the request ends in a 500 otherwise.
Respond(r, items) ==
    IF \A n \in 1..Len(items) : ValidAroniaProduct(items[n])
    THEN [lp EXCEPT ![r].pc = "done", ![r].status = 200, ![r].result = items]
    ELSE [lp EXCEPT ![r].pc = "done", ![r].status = 500, ![r].result = <<>>]

\* try: items = get_documents("aroniaproduct", {})  except: items = []
ListQuery(r, ok) ==
    /\ lp[r].pc \in {"idle", "done"}
    /\ served < MaxRequests
    /\ served' = served + 1
    /\ lp' = [lp EXCEPT ![r] = [IdleReq EXCEPT !.pc = "queried",
                                   !.items = IF ok THEN products ELSE <<>>]]
    /\ UNCHANGED <<products, orders, resp>>

\* if not items: the default is built, its insert attempted, and returned.
ListSeed(r, ok) ==
    /\ lp[r].pc = "queried"
    /\ lp[r].items = <<>>
    /\ products' = IF ok THEN Append(products, AroniaProductDoc) ELSE products
    /\ lp' = [Respond(r, SeedItems(ok)) EXCEPT ![r].insert = IF ok THEN "ok" ELSE "failed"]
    /\ UNCHANGED <<orders, resp, served>>

\* else: every document is normalised; a TypeError ends the request in a 500.
ListNormalize(r) ==
    /\ lp[r].pc = "queried"
    /\ lp[r].items # <<>>
    /\ lp' = IF \E n \in 1..Len(lp[r].items) : Raises(lp[r].items[n])
             THEN [lp EXCEPT ![r].pc = "done", ![r].status = 500]
             ELSE Respond(r, [n \in 1..Len(lp[r].items) |-> Normalize(lp[r].items[n])])
    /\ UNCHANGED <<products, orders, resp, served>>

\* ----------------------------------------------------------- create_order
RECURSIVE Total(_)
Total(items) ==
    IF items = <<>> THEN 0
    ELSE items[1].unit_price * items[1].quantity + Total(Tail(items))

\* total = sum(item.unit_price * item.quantity for item in order.items)
OrderTotalMut(order) ==
    IF order.total_amount.k = "val" THEN order.total_amount.v
    ELSE Total(order.items)

OrderTotal(order) == Total(order.items)

\* if not order.items
EmptyOrderMut(order) == FALSE

EmptyOrder(order) == order.items = <<>>

\* payload = order.model_dump(); payload["total_amount"] = float(total)
PayloadMut(order, total) ==
    [customer_email |-> order.customer_email, items |-> order.items,
     total_amount |-> IF order.total_amount.k = "val"
                      THEN order.total_amount.v ELSE total]

Payload(order, total) ==
    [customer_email |-> order.customer_email, items |-> order.items,
     total_amount |-> total]

\* The two return statements.
Created(order, id, total) ==
    [op |-> "create_order", order |-> order, status |-> 200,
     order_id |-> Num(id), total_amount |-> total, insert |-> "ok"]

FallbackMut(order, total) ==
    [op |-> "create_order", order |-> order, status |-> 500,
     order_id |-> NullN, total_amount |-> 0, insert |-> "failed"]

Fallback(order, total) ==
    [op |-> "create_order", order |-> order, status |-> 200,
     order_id |-> NullN, total_amount |-> total, insert |-> "failed"]

Rejected(order, code) ==
    [op |-> "create_order", order |-> order, status |-> code,
     order_id |-> NullN, total_amount |-> 0, insert |-> "none"]

\* The identifier the store gives the next order document.
NextId == Len(orders) + 1

\* A mutant of the handler: the order is stored before it is validated.
create_order_mut(order, ok) ==
    /\ served < MaxRequests
    /\ served' = served + 1
    /\ orders' = IF ok /\ ValidOrder(order)
                 THEN Append(orders, [id |-> NextId] @@ Payload(order, OrderTotal(order)))
                 ELSE orders
    /\ resp' = IF ~ValidOrder(order) THEN Rejected(order, 422)
               ELSE IF EmptyOrder(order) THEN Rejected(order, 400)
               ELSE IF ok THEN Created(order, NextId, OrderTotal(order))
               ELSE Fallback(order, OrderTotal(order))
    /\ UNCHANGED <<products, lp>>

\* POST /api/checkout: the body is validated against Order (422), then the
\* handler runs; ok is whether create_document("order", payload) returns.
create_order(order, ok) ==
    /\ served < MaxRequests
    /\ served' = served + 1
    /\ IF ~ValidOrder(order)
       THEN resp' = Rejected(order, 422) /\ orders' = orders
       ELSE IF EmptyOrder(order)
       THEN resp' = Rejected(order, 400) /\ orders' = orders
       ELSE LET total == OrderTotal(order)
            IN  IF ok
                THEN /\ orders' = Append(orders, [id |-> NextId] @@ Payload(order, total))
                     /\ resp' = Created(order, NextId, total)
                ELSE /\ orders' = orders
                     /\ resp' = Fallback(order, total)
    /\ UNCHANGED <<products, lp>>

\* ------------------------------------------------------ the specification
Next ==
    \/ \E r \in ListReqs, ok \in BOOLEAN : ListQuery(r, ok)
    \/ \E r \in ListReqs, ok \in BOOLEAN : ListSeed(r, ok)
    \/ \E r \in ListReqs : ListNormalize(r)
    \/ \E order \in Bodies, ok \in BOOLEAN : create_order(order, ok)

Spec == Init /\ [][Next]_vars

\* ------------------------------------------------------------ the claims
\* The sum of unit_price * quantity over the items, taken by position.
RECURSIVE SumTo(_, _)
SumTo(items, n) ==
    IF n = 0 THEN 0
    ELSE SumTo(items, n - 1) + items[n].unit_price * items[n].quantity
Sigma(items) == SumTo(items, Len(items))

Accepted == resp.op = "create_order" /\ resp.status = 200

\* C1: every order create_order accepts has a non-empty item sequence, and
\* the total_amount of the response is the sum of unit_price * quantity over
\* its items, whatever total the client supplied.
C1_TotalIsSum ==
    Accepted =>
        /\ resp.order.items # <<>>
        /\ resp.total_amount = Sigma(resp.order.items)

C1_Witness ==
    /\ Accepted
    /\ resp.order.items = <<Item(500, 2), Item(500, 2)>>
    /\ resp.order.total_amount = Num(999)
    /\ resp.total_amount = 2000

\* C2: a checkout request with an item whose unit_price is negative or whose
\* quantity is outside 1..24 is rejected with a client error before
\* create_order runs: no total is computed and no insert is attempted.
BadItem(it) == it.unit_price < 0 \/ it.quantity < 1 \/ it.quantity > 24

C2_ItemShapeEnforced ==
    (resp.op = "create_order"
        /\ \E i \in 1..Len(resp.order.items) : BadItem(resp.order.items[i]))
    => /\ resp.status \in {400, 422}
       /\ resp.insert = "none"
       /\ resp.total_amount = 0

\* C3: every list_products request ends in a success response, whatever the
\* product collection holds and whichever store calls fail.
C3_ListNeverFails ==
    \A r \in ListReqs : lp[r].pc = "done" => lp[r].status = 200

\* C4: the product collection never holds more than one seeded default
\* product (sku "ARONIA-750ML").
Seeded == {n \in 1..Len(products) : products[n].sku = Str("ARONIA-750ML")}

C4_SeedOnce == Cardinality(Seeded) <= 1

\* C5: when the insert of create_order fails, the response is status "ok"
\* (200) with order_id null and total_amount the sum of unit_price * quantity
\* over the items, which are not empty.
C5_FallbackOnInsertFailure ==
    (resp.op = "create_order" /\ resp.insert = "failed") =>
        /\ resp.status = 200
        /\ resp.order_id = NullN
        /\ resp.order.items # <<>>
        /\ resp.total_amount = Sigma(resp.order.items)

C5_Witness ==
    /\ resp.op = "create_order"
    /\ resp.insert = "failed"
    /\ resp.order.items = <<Item(500, 2), Item(500, 2)>>
    /\ resp.order_id = NullN
    /\ resp.total_amount = 2000

\* C6: create_order with an empty items sequence never ends in a success
\* response; when the handler runs (the body is a valid Order) it ends in 400,
\* and no insert is attempted.
C6_EmptyOrderRejected ==
    (resp.op = "create_order" /\ resp.order.items = <<>>) =>
        /\ resp.status # 200
        /\ ValidEmail(resp.order.customer_email) => resp.status = 400
        /\ resp.insert = "none"

C6_Witness ==
    /\ resp.op = "create_order"
    /\ resp.order.items = <<>>
    /\ resp.status = 400
    /\ orders # <<>>

\* C7: a list_products request whose query gave no documents (none stored, or
\* the query failed) returns exactly one product, the default with sku
\* "ARONIA-750ML", price 12.90, volume_ml 750 and in_stock true, whether the
\* insert of the default succeeded or failed.
IsDefault(p) ==
    /\ p.sku = Str("ARONIA-750ML")
    /\ p.price = 1290
    /\ p.volume_ml = 750
    /\ p.in_stock = TRUE

C7_EmptyQueryGivesDefault ==
    \A r \in ListReqs :
        (lp[r].pc = "done" /\ lp[r].items = <<>>) =>
            /\ lp[r].status = 200
            /\ Len(lp[r].result) = 1
            /\ IsDefault(lp[r].result[1])
            /\ lp[r].insert \in {"ok", "failed"}

C7_Witness ==
    \E r \in ListReqs :
        /\ lp[r].pc = "done"
        /\ lp[r].items = <<>>
        /\ lp[r].insert = "failed"
        /\ products # <<>>
        /\ Len(lp[r].result) = 1

\* C8: a list_products request whose query gave N >= 1 well-formed documents
\* returns N products in the same order, a missing price read as 0, a missing
\* in_stock as true, a missing volume_ml as 750, and attempts no insert.  A
\* document is well-formed when title and sku are present strings and price,
\* in_stock and volume_ml are each absent or a value the response model
\* accepts (price >= 0, volume_ml >= 50).
WellFormed(d) ==
    /\ d.title.k = "val"
    /\ d.sku.k = "val"
    /\ d.price.k = "missing" \/ (d.price.k = "val" /\ d.price.v >= 0)
    /\ d.in_stock.k \in {"missing", "val"}
    /\ d.volume_ml.k = "missing" \/ (d.volume_ml.k = "val" /\ d.volume_ml.v >= 50)

Canonical(d, p) ==
    /\ p.title = d.title
    /\ p.sku = d.sku
    /\ p.price = IF d.price.k = "missing" THEN 0 ELSE d.price.v
    /\ p.in_stock = IF d.in_stock.k = "missing" THEN TRUE ELSE d.in_stock.v
    /\ p.volume_ml = IF d.volume_ml.k = "missing" THEN 750 ELSE d.volume_ml.v

C9_StoredOrdersConsistent ==
    \A n \in 1..Len(orders) :
        /\ orders[n].items # <<>>
        /\ orders[n].total_amount = Sigma(orders[n].items)

C9_Witness ==
    /\ Len(orders) = 1
    /\ Len(orders[1].items) = 2
    /\ resp.order.total_amount = Num(999)
    /\ \E r \in ListReqs : lp[r].pc = "done"

\* C10: a create_order step (a request is served and no list_products request
\* moves) leaves the product collection unchanged; when the items sequence is
\* empty it leaves the order collection unchanged too, and otherwise it adds
\* at most one document at the end of the order collection.
CheckoutStep == served' = served + 1 /\ lp' = lp

C10_Frame ==
    CheckoutStep =>
        /\ products' = products
        /\ resp'.order.items = <<>> => orders' = orders
        /\ Len(orders') \in {Len(orders), Len(orders) + 1}
        /\ SubSeq(orders', 1, Len(orders)) = orders

C10_CreateOrderFrame == [][C10_Frame]_vars

C10_Witness ==
    /\ resp.op = "create_order"
    /\ resp.insert = "ok"
    /\ Len(orders) = 1
    /\ products # <<>>
    /\ \E r \in ListReqs : lp[r].pc = "queried"

====
